---- MODULE Spec2Model ----
(***************************************************************************)
(* A model of chatbot.py: the moderation-gated conversation loop            *)
(* (run_chatbot), the Moderation Gate (moderate_text) and the Escalation    *)
(* Recorder (record_flagged_content) with the git repository it publishes   *)
(* to.  Texts are sequences of one-character strings so that str.lower()    *)
(* and str.strip() are computed, not assumed.                               *)
(***************************************************************************)
EXTENDS Integers, Sequences, FiniteSets, TLC

\* ------------------------------------------------------------------ bounds
\* Number of console lines a session reads.
MaxTurns == 2
\* Largest value of the wall clock, in seconds since the session started.
MaxClock == 1

\* ------------------------------------------------------------------- texts
\* The exit keywords of line 78.
ExitKeywords == { <<"e","x","i","t">>, <<"q","u","i","t">> }

\* The fixed placeholder of line 107.
Placeholder == <<"[","B","l","o","c","k","e","d"," ","c","o","n","t","e","n","t","]">>

\* The system preamble of lines 72-74.
SystemMessage == [role |-> "system", content |-> <<"Y","o","u"," ","a","r","e">>]

\* Lines the user may type at the prompt of line 77.
UserInputs ==
  { <<"e","x","i","t">>, <<"Q","U","I","T">>, <<"E","x","i","t">>,
    <<"e","x","i","t"," ">>, <<"h","i">> }

\* What response.choices[0].message.content may hold (line 101).
ReplyContents == { <<" ","o","k"," ">> }

\* str.lower() on one character of the model's alphabet.
LowerChar(c) ==
  CASE c = "E" -> "e" [] c = "X" -> "x" [] c = "I" -> "i" [] c = "T" -> "t"
    [] c = "Q" -> "q" [] c = "U" -> "u" [] c = "B" -> "b" [] OTHER -> c

\* str.lower() of line 78.
lower(s) == [i \in 1..Len(s) |-> LowerChar(s[i])]

IsSpace(c) == c \in {" ", "\n", "\t"}

RECURSIVE lstrip(_)
lstrip(s) == IF s # <<>> /\ IsSpace(Head(s)) THEN lstrip(Tail(s)) ELSE s

RECURSIVE rstrip(_)
rstrip(s) ==
  IF s # <<>> /\ IsSpace(s[Len(s)]) THEN rstrip(SubSeq(s, 1, Len(s) - 1)) ELSE s

\* str.strip() of line 101.
strip(s) == rstrip(lstrip(s))

\* The exit test of line 78, written without lower(): a mutant.
IsExitCommandCaseSensitive(u) == u \in ExitKeywords

\* The exit test of line 78.
IsExitCommand(u) == lower(u) \in ExitKeywords

\* -------------------------------------------------------- moderation gate
\* What client.moderations.create may do (line 53): answer with a flagged
\* bit, raise, or answer with something response.results[0].flagged cannot
\* be read from.  `flagged` is the bit the service holds for the text, also
\* when it is never delivered.
ModerationResponses ==
  [kind : {"ok", "raise", "malformed"}, flagged : BOOLEAN]

NoResponse == [kind |-> "none", flagged |-> FALSE]

\* moderate_text treating a failed classification as clean: a mutant.
moderate_text_fail_clean(r) == IF r.kind = "ok" THEN r.flagged ELSE FALSE

\* moderate_text, lines 52-58: the service's bit, or True on any exception.
moderate_text(r) == IF r.kind = "ok" THEN r.flagged ELSE TRUE

\* ------------------------------------------------------------- repository
\* A tree or an index is a set of <<name, content>> pairs, one per name.
Has(m, n) == \E p \in m : p[1] = n
Get(m, n) == (CHOOSE p \in m : p[1] = n)[2]
Put(m, n, c) == { p \in m : p[1] # n } \cup { <<n, c>> }

\* Lines 19-20: the artifact's name for a timestamp.
Filename(ts) == <<"flagged_event_", ts, ".txt">>

\* The artifact written with its header only: a mutant of line 23.
ContentHeaderOnly(ts, text) ==
  <<"Flagged content detected at ", ts, "\nOffending text:\n", <<>>, "\n">>

\* Line 23: the artifact's content.
Content(ts, text) ==
  <<"Flagged content detected at ", ts, "\nOffending text:\n", text, "\n">>

\* A file opened for writing whose write raised: it exists and is empty.
EmptyFile == <<>>

VARIABLES
  pc,             \* position in run_chatbot / record_flagged_content
  messages,       \* the History (line 72)
  user_input,     \* line 77
  assistant_reply,\* line 101
  response,       \* moderate_text's local `response` (line 53)
  caller,         \* call site of record_flagged_content: "user" (86), "reply" (108)
  offending_text, \* record_flagged_content's parameter
  timestamp,      \* line 19
  clock,          \* the last value datetime.now() returned
  files,          \* the working directory
  staged,         \* the git index: staged changes against HEAD
  head,           \* the tree of the local HEAD
  unpushed,       \* local commits not yet on origin/main
  remote,         \* commits on origin/main
  gateLog,        \* every return of moderate_text
  compLog,        \* every request sent to client.chat.completions.create
  out,            \* everything printed
  ops,            \* every operation record_flagged_content performed
  turns           \* number of lines read by input()

vars == << pc, messages, user_input, assistant_reply, response, caller,
           offending_text, timestamp, clock, files, staged, head, unpushed,
           remote, gateLog, compLog, out, ops, turns >>

orchVars == << messages, user_input, assistant_reply >>
recVars == << caller, offending_text, timestamp, clock >>
gitVars == << files, staged, head, unpushed, remote >>

Init ==
  /\ pc = "AwaitingInput"
  /\ messages = << SystemMessage >>
  /\ user_input = <<>>
  /\ assistant_reply = <<>>
  /\ response = NoResponse
  /\ caller = "none"
  /\ offending_text = <<>>
  /\ timestamp = 0
  /\ clock = 0
  /\ files = {}
  /\ staged = {}
  /\ head = {}
  /\ unpushed = <<>>
  /\ remote = <<>>
  /\ gateLog = <<>>
  /\ compLog = <<>>
  /\ out = <<>>
  /\ ops = <<>>
  /\ turns = 0

\* One printed line.
Line(kind, text) == [kind |-> kind, text |-> text]

Min(a, b) == IF a < b THEN a ELSE b

\* ------------------------------------------------------------ orchestrator
\* The History after the user's verdict, appending also a flagged input: a
\* mutant of lines 84-90.
HistoryAfterUserVerdictLeaky(flagged, msgs, u) ==
  Append(msgs, [role |-> "user", content |-> u])

\* The History started afresh when an input is flagged: a mutant of lines
\* 84-90.
HistoryAfterUserVerdictReset(flagged, msgs, u) ==
  IF flagged THEN << SystemMessage >>
             ELSE Append(msgs, [role |-> "user", content |-> u])

\* Lines 84-90: a flagged input leaves the History alone, a clean one is
\* appended with role user.
HistoryAfterUserVerdict(flagged, msgs, u) ==
  IF flagged THEN msgs ELSE Append(msgs, [role |-> "user", content |-> u])

\* The assistant slot storing the real reply also when flagged: a mutant of
\* line 107.
AssistantSlotLeaky(flagged, reply) == [role |-> "assistant", content |-> reply]

\* The assistant slot holding the placeholder whatever the verdict: a mutant
\* of lines 105-111.
AssistantSlotAlwaysBlocked(flagged, reply) ==
  [role |-> "assistant", content |-> Placeholder]

\* Lines 107 and 111: the message appended for the turn's assistant slot.
AssistantSlot(flagged, reply) ==
  [role |-> "assistant", content |-> IF flagged THEN Placeholder ELSE reply]

\* The branch of line 84 never reaching the Recorder: a mutant.
AfterUserVerdictNoRecord(flagged) == IF flagged THEN "AwaitingInput" ELSE "Completing"

\* The branch of line 84 going on to the completion call whatever the
\* verdict: a mutant.
AfterUserVerdictAlwaysCompletes(flagged) == "Completing"

\* Lines 84-90: where run_chatbot goes on the input's verdict: into
\* record_flagged_content (line 86) or on to the completion call.
AfterUserVerdict(flagged) == IF flagged THEN "RecWrite" ELSE "Completing"

\* Lines 105-111: where run_chatbot goes on the reply's verdict: into
\* record_flagged_content (line 108) or back to the prompt.
AfterReplyVerdict(flagged) == IF flagged THEN "RecWrite" ELSE "AwaitingInput"

\* The except clause of lines 113-115 continuing the loop: a mutant.
OnCompletionFailureContinue == "AwaitingInput"

\* Lines 113-115: an exception inside the try block prints it and breaks.
OnCompletionFailure == "Ended"

\* Every exception leaving record_flagged_content caught by the except of
\* line 113, as if line 86 stood inside the try block: a mutant.
OnRecorderExceptionCaught(site) == "Ended"

\* An exception leaving record_flagged_content: from line 86 nothing catches
\* it and run_chatbot dies; from line 108 the except of line 113 catches it.
OnRecorderException(site) == IF site = "reply" THEN OnCompletionFailure ELSE "Crashed"

\* What an exception leaving record_flagged_content prints (line 114).
RecorderExceptionOutput(site) ==
  IF site = "reply" THEN << Line("error", <<>>) >> ELSE <<>>

\* Lines 55-56: the diagnostic of a failed classification.
ModerationOutput(r) ==
  IF r.kind = "ok" THEN <<>> ELSE << Line("moderation_error", <<>>) >>

\* Lines 77-80: one line is read; an exit keyword says goodbye and breaks.
ReadInput ==
  /\ pc = "AwaitingInput"
  /\ turns < MaxTurns
  /\ \E u \in UserInputs :
       /\ user_input' = u
       /\ IF IsExitCommand(u)
            THEN /\ pc' = "Ended"
                 /\ out' = Append(out, Line("goodbye", <<>>))
            ELSE /\ pc' = "ModeratingUser"
                 /\ out' = out
  /\ turns' = turns + 1
  /\ UNCHANGED << messages, assistant_reply, response, recVars, gitVars,
                  gateLog, compLog, ops >>

\* Line 77: input() raises EOFError when the console is closed; nothing
\* catches it.
ReadEOF ==
  /\ pc = "AwaitingInput"
  /\ pc' = "Crashed"
  /\ UNCHANGED << orchVars, response, recVars, gitVars, gateLog, compLog,
                  out, ops, turns >>

\* Lines 83 and 53: the classification request for the user's input.
ClassifyUser ==
  /\ pc = "ModeratingUser"
  /\ response' \in ModerationResponses
  /\ pc' = "UserVerdict"
  /\ UNCHANGED << orchVars, recVars, gitVars, gateLog, compLog, out, ops, turns >>

\* Lines 54-58 and 84-90: the Gate's verdict on the input and its branch.
UserVerdict ==
  /\ pc = "UserVerdict"
  /\ LET user_flagged == moderate_text(response) IN
       /\ gateLog' = Append(gateLog,
            [side |-> "user", text |-> user_input, flagged |-> user_flagged])
       /\ messages' = HistoryAfterUserVerdict(user_flagged, messages, user_input)
       /\ IF user_flagged
            THEN /\ out' = out \o ModerationOutput(response)
                             \o << Line("user_blocked", <<>>) >>
                 /\ caller' = "user"
                 /\ offending_text' = user_input
            ELSE /\ out' = out \o ModerationOutput(response)
                 /\ UNCHANGED << caller, offending_text >>
       /\ pc' = AfterUserVerdict(user_flagged)
  /\ response' = NoResponse
  /\ UNCHANGED << user_input, assistant_reply, timestamp, clock, gitVars,
                  compLog, ops, turns >>

\* The request carrying the newest message only: a mutant of line 96.
CompletionRequestLastOnly(msgs) == << msgs[Len(msgs)] >>

\* Line 96: the messages argument of the completion request.
CompletionRequest(msgs) == msgs

\* Lines 92-101 and 113-115: the completion request, the reply's extraction.
Complete ==
  /\ pc = "Completing"
  /\ compLog' = Append(compLog, CompletionRequest(messages))
  /\ \/ \* the call raises, or choices[0].message.content has no strip()
        /\ pc' = OnCompletionFailure
        /\ out' = Append(out, Line("error", <<>>))
        /\ UNCHANGED assistant_reply
     \/ \E c \in ReplyContents :
          /\ assistant_reply' = strip(c)
          /\ pc' = "ModeratingReply"
          /\ out' = out
  /\ UNCHANGED << messages, user_input, response, recVars, gitVars, gateLog,
                  ops, turns >>

\* Lines 104 and 53: the classification request for the reply.
ClassifyReply ==
  /\ pc = "ModeratingReply"
  /\ response' \in ModerationResponses
  /\ pc' = "ReplyVerdict"
  /\ UNCHANGED << orchVars, recVars, gitVars, gateLog, compLog, out, ops, turns >>

\* Lines 54-58 and 105-111: the Gate's verdict on the reply and its branch.
ReplyVerdict ==
  /\ pc = "ReplyVerdict"
  /\ LET model_flagged == moderate_text(response) IN
       /\ gateLog' = Append(gateLog,
            [side |-> "reply", text |-> assistant_reply, flagged |-> model_flagged])
       /\ messages' = Append(messages, AssistantSlot(model_flagged, assistant_reply))
       /\ IF model_flagged
            THEN /\ out' = out \o ModerationOutput(response)
                             \o << Line("model_blocked", <<>>) >>
                 /\ caller' = "reply"
                 /\ offending_text' = assistant_reply
            ELSE /\ out' = out \o ModerationOutput(response)
                             \o << Line("assistant", assistant_reply) >>
                 /\ UNCHANGED << caller, offending_text >>
       /\ pc' = AfterReplyVerdict(model_flagged)
  /\ response' = NoResponse
  /\ UNCHANGED << user_input, assistant_reply, timestamp, clock, gitVars,
                  compLog, ops, turns >>

\* ---------------------------------------------------------------- recorder
Op(op, name, ok) == [op |-> op, name |-> name, ok |-> ok]

\* `git add name`: the index entry for the file, none when the file equals
\* the one in HEAD (line 27).
GitAdd(index, tree, name, content) ==
  IF <<name, content>> \in tree
    THEN { p \in index : p[1] # name }
    ELSE Put(index, name, content)

\* `git commit`: HEAD's tree with every staged entry written over it (line 28).
GitCommitTree(tree, index) ==
  { p \in tree : ~Has(index, p[1]) } \cup index

\* Leaving record_flagged_content by return: lines 87 (continue) and 108
\* (the end of the try block) both go back to the prompt of line 77.
RecorderReturn ==
  /\ pc' = "AwaitingInput"
  /\ caller' = "none"
  /\ offending_text' = <<>>
  /\ timestamp' = 0

\* Leaving record_flagged_content by an exception it does not catch.
RecorderRaise ==
  /\ pc' = OnRecorderException(caller)
  /\ out' = out \o RecorderExceptionOutput(caller)
  /\ caller' = "none"
  /\ offending_text' = <<>>
  /\ timestamp' = 0

\* Lines 19-23: the clock is read, the artifact is opened and written.
\* open() or write() may raise (OSError, UnicodeEncodeError); they stand
\* outside the try block of line 25.
RecWrite ==
  /\ pc = "RecWrite"
  /\ \E t \in clock .. Min(clock + 1, MaxClock) :
       /\ clock' = t
       /\ \/ /\ files' = Put(files, Filename(t), Content(t, offending_text))
             /\ ops' = Append(ops, Op("write", Filename(t), TRUE))
             /\ timestamp' = t
             /\ pc' = "RecAdd"
             /\ UNCHANGED << caller, offending_text, out >>
          \/ \* open() raises: no file
             /\ files' = files
             /\ ops' = Append(ops, Op("write", Filename(t), FALSE))
             /\ RecorderRaise
          \/ \* write() raises: the file was created by open() and is empty
             /\ files' = Put(files, Filename(t), EmptyFile)
             /\ ops' = Append(ops, Op("write", Filename(t), FALSE))
             /\ RecorderRaise
  /\ UNCHANGED << orchVars, response, staged, head, unpushed, remote,
                  gateLog, compLog, turns >>

\* A failed git step reported without abandoning the publish, the push being
\* tried all the same: a mutant of lines 25-34.
RecorderFailedPushesAnyway ==
  /\ out' = Append(out, Line("push_error", Filename(timestamp)))
  /\ IF pc = "RecPush"
       THEN RecorderReturn
       ELSE /\ pc' = "RecPush"
            /\ UNCHANGED << caller, offending_text, timestamp >>

\* Lines 33-34: CalledProcessError is caught and reported.
RecorderFailed ==
  /\ out' = Append(out, Line("push_error", Filename(timestamp)))
  /\ RecorderReturn

\* Line 27: git add.  A non-zero exit is CalledProcessError; a git that
\* cannot be started is FileNotFoundError, which line 33 does not catch.
RecAdd ==
  /\ pc = "RecAdd"
  /\ \/ /\ staged' = GitAdd(staged, head, Filename(timestamp),
                            Get(files, Filename(timestamp)))
        /\ ops' = Append(ops, Op("add", Filename(timestamp), TRUE))
        /\ pc' = "RecCommit"
        /\ UNCHANGED << caller, offending_text, timestamp, out >>
     \/ /\ staged' = staged
        /\ ops' = Append(ops, Op("add", Filename(timestamp), FALSE))
        /\ RecorderFailed
     \/ /\ staged' = staged
        /\ ops' = Append(ops, Op("add", Filename(timestamp), FALSE))
        /\ RecorderRaise
  /\ UNCHANGED << orchVars, response, clock, files, head, unpushed, remote,
                  gateLog, compLog, turns >>

\* Line 28: git commit.  It commits the whole index and fails when the
\* index holds nothing to commit.
RecCommit ==
  /\ pc = "RecCommit"
  /\ \/ /\ staged # {}
        /\ unpushed' = Append(unpushed, staged)
        /\ head' = GitCommitTree(head, staged)
        /\ staged' = {}
        /\ ops' = Append(ops, Op("commit", Filename(timestamp), TRUE))
        /\ pc' = "RecPush"
        /\ UNCHANGED << caller, offending_text, timestamp, out >>
     \/ /\ UNCHANGED << unpushed, head, staged >>
        /\ ops' = Append(ops, Op("commit", Filename(timestamp), FALSE))
        /\ RecorderFailed
  /\ UNCHANGED << orchVars, response, clock, files, remote, gateLog, compLog,
                  turns >>

\* Lines 31-32: git push origin main sends every local commit the remote
\* lacks.
RecPush ==
  /\ pc = "RecPush"
  /\ \/ /\ remote' = remote \o unpushed
        /\ unpushed' = <<>>
        /\ ops' = Append(ops, Op("push", Filename(timestamp), TRUE))
        /\ out' = Append(out, Line("pushed", Filename(timestamp)))
        /\ RecorderReturn
     \/ /\ UNCHANGED << remote, unpushed >>
        /\ ops' = Append(ops, Op("push", Filename(timestamp), FALSE))
        /\ RecorderFailed
  /\ UNCHANGED << orchVars, response, clock, files, staged, head, gateLog,
                  compLog, turns >>

Next ==
  \/ ReadInput
  \/ ReadEOF
  \/ ClassifyUser
  \/ UserVerdict
  \/ Complete
  \/ ClassifyReply
  \/ ReplyVerdict
  \/ RecWrite
  \/ RecAdd
  \/ RecCommit
  \/ RecPush

Spec == Init /\ [][Next]_vars

\* The steps of a turn under way: every one is an external call that returns
\* or raises, or the code between two such calls.
TurnStep ==
  \/ ClassifyUser
  \/ UserVerdict
  \/ Complete
  \/ ClassifyReply
  \/ ReplyVerdict
  \/ RecWrite
  \/ RecAdd
  \/ RecCommit
  \/ RecPush

\* The session when no external call blocks for ever: a turn under way
\* keeps taking its steps (the program is single-threaded and synchronous).
FairSpec == Spec /\ WF_vars(TurnStep)

\* =================================================================== claims
Last(q) == q[Len(q)]

RecStates == {"RecWrite", "RecAdd", "RecCommit", "RecPush"}

\* The step returns from moderate_text with a verdict for `side`.
VerdictStep(side) ==
  /\ Len(gateLog') = Len(gateLog) + 1
  /\ Last(gateLog').side = side

Users(msgs) == SelectSeq(msgs, LAMBDA m : m.role = "user")
Assistants(msgs) == SelectSeq(msgs, LAMBDA m : m.role = "assistant")
Verdicts(side) == SelectSeq(gateLog, LAMBDA v : v.side = side)
Flagged(log) == SelectSeq(log, LAMBDA v : v.flagged)
Printed(kind) == SelectSeq(out, LAMBDA l : l.kind = kind)
Done(op) == SelectSeq(ops, LAMBDA o : o.op = op)

\* The turn in progress is one whose user input the Gate flagged.
InFlaggedUserTurn == pc \in RecStates /\ caller = "user"

\* C1: in a turn whose user input moderate_text flags, no completion request
\* is made, the History stays as it was, nothing is displayed as assistant
\* output, and the turn ends back at AwaitingInput.
C1_FlaggedInputBlocked ==
  [][ ((VerdictStep("user") /\ Last(gateLog').flagged) \/ InFlaggedUserTurn)
        => /\ messages' = messages
           /\ compLog' = compLog
           /\ Printed("assistant")' = Printed("assistant")
           /\ pc' \in RecStates \cup {"AwaitingInput"} ]_vars

\* The part of C1 the code keeps: a flagged input is never stored, forwarded
\* or displayed, whatever becomes of the session.
C1_FlaggedInputNeverForwarded ==
  [][ ((VerdictStep("user") /\ Last(gateLog').flagged) \/ InFlaggedUserTurn)
        => /\ messages' = messages
           /\ compLog' = compLog
           /\ Printed("assistant")' = Printed("assistant")
           /\ pc' \in RecStates \cup {"AwaitingInput", "Crashed"} ]_vars

\* C2: the assistant slot of a turn whose reply moderate_text flagged holds
\* the fixed placeholder, in the History and in every completion request
\* made later, and the replies displayed are exactly the clean ones.
C2_FlaggedReplyNeverStored ==
  LET SlotsOk(msgs) ==
        \A i \in 1..Len(Assistants(msgs)) :
          Verdicts("reply")[i].flagged
            => Assistants(msgs)[i].content = Placeholder
  IN /\ Len(Assistants(messages)) = Len(Verdicts("reply"))
     /\ SlotsOk(messages)
     /\ \A k \in 1..Len(compLog) :
          /\ Len(Assistants(compLog[k])) <= Len(Verdicts("reply"))
          /\ SlotsOk(compLog[k])
     /\ LET clean == SelectSeq(Verdicts("reply"), LAMBDA v : ~v.flagged)
        IN /\ Len(Printed("assistant")) = Len(clean)
           /\ \A i \in 1..Len(clean) : Printed("assistant")[i].text = clean[i].text

\* A completion request was made after a reply was flagged: it carries the
\* placeholder in that reply's slot.
C2_Witness ==
  /\ compLog # <<>>
  /\ \E i \in 1..Len(Assistants(Last(compLog))) :
       /\ Verdicts("reply")[i].flagged
       /\ Verdicts("reply")[i].text # Placeholder
       /\ Assistants(Last(compLog))[i].content = Placeholder

\* C3: moderate_text returns True whenever the classification raised or its
\* response could not be read, and the service's bit otherwise; a text whose
\* classification failed is blocked and handed to the Recorder like a flagged
\* one.
C3_GateFailsToFlagged ==
  [][ (pc \in {"UserVerdict", "ReplyVerdict"})
        => /\ Len(gateLog') = Len(gateLog) + 1
           /\ Last(gateLog').flagged =
                (IF response.kind \in {"raise", "malformed"} THEN TRUE
                                                           ELSE response.flagged)
           /\ Last(gateLog').text =
                (IF pc = "UserVerdict" THEN user_input ELSE assistant_reply)
           /\ (response.kind \in {"raise", "malformed"}
                 => /\ pc' = "RecWrite"
                    /\ offending_text' = Last(gateLog').text
                    /\ compLog' = compLog
                    /\ Printed("assistant")' = Printed("assistant")
                    /\ \A i \in Len(messages) + 1 .. Len(messages') :
                         messages'[i].content # Last(gateLog').text) ]_vars

\* The Recorder has just been invoked for a text whose classification failed.
C3_Witness ==
  /\ pc = "RecWrite"
  /\ Len(out) >= 2
  /\ out[Len(out) - 1].kind = "moderation_error"
  /\ offending_text = Last(gateLog).text

\* Some Gate check made so far had `text` as its argument and returned
\* flagged = False.
PassedGate(text) == \E k \in 1..Len(gateLog) : gateLog[k].text = text /\ ~gateLog[k].flagged

\* C4 as claimed: every user or assistant message of the History was the
\* argument of a Gate check that returned flagged = False.
C4_EveryMessagePassedGate ==
  \A i \in 1..Len(messages) :
    messages[i].role \in {"user", "assistant"} => PassedGate(messages[i].content)

\* C4 as amended: the user messages of the History are, in order, the inputs
\* the Gate returned flagged = False for; the i-th assistant message is the
\* i-th checked reply when its verdict was clean, and the fixed placeholder
\* (which no Gate check ever saw) when its verdict was flagged.
C4_EveryMessagePassedGateOrPlaceholder ==
  LET cleanInputs == SelectSeq(Verdicts("user"), LAMBDA v : ~v.flagged)
      replies == Verdicts("reply")
  IN /\ Len(Users(messages)) = Len(cleanInputs)
     /\ \A i \in 1..Len(cleanInputs) : Users(messages)[i].content = cleanInputs[i].text
     /\ Len(Assistants(messages)) = Len(replies)
     /\ \A i \in 1..Len(replies) :
          IF replies[i].flagged
            THEN Assistants(messages)[i].content = Placeholder
            ELSE Assistants(messages)[i].content = replies[i].text
     /\ \A i \in 1..Len(messages) :
          messages[i].role \in {"user", "assistant"}
            => \/ PassedGate(messages[i].content)
               \/ messages[i] = [role |-> "assistant", content |-> Placeholder]

\* The History holds two clean user messages, a real reply and a placeholder
\* that no Gate check saw.
C4_Witness ==
  /\ Len(messages) = 5
  /\ messages[3].content # Placeholder
  /\ PassedGate(messages[3].content)
  /\ messages[5].content = Placeholder
  /\ ~PassedGate(Placeholder)

\* A turn is over or has not begun.
AtTurnBoundary == pc \in {"AwaitingInput", "Ended", "Crashed"}

Written == SelectSeq(Done("write"), LAMBDA o : o.ok)

\* C5 as claimed: after any sequence of turns the artifacts created and the
\* publish attempts started (git add run) each number the flagged verdicts.
C5_OneArtifactAndPublishPerFlagged ==
  AtTurnBoundary
    => /\ Len(Written) = Len(Flagged(gateLog))
       /\ Len(Done("add")) = Len(Flagged(gateLog))

\* C5 as amended: the Recorder is invoked once per flagged verdict and never
\* for a clean one; an invocation creates one artifact and starts one publish
\* attempt when the artifact is written, and starts none when open() or
\* write() raises.
C5_OneRecordingPerFlagged ==
  /\ Len(Done("write")) <= Len(Flagged(gateLog))
  /\ Len(Done("add")) <= Len(Written)
  /\ Len(Done("write")) + (IF pc = "RecWrite" THEN 1 ELSE 0) = Len(Flagged(gateLog))
  /\ Len(Done("add")) + (IF pc = "RecAdd" THEN 1 ELSE 0) = Len(Written)
  /\ AtTurnBoundary
       => /\ Len(Done("write")) = Len(Flagged(gateLog))
          /\ Len(Done("add")) = Len(Written)

\* Two verdicts were flagged and one was clean, and both recordings ran.
C5_Witness ==
  /\ pc = "AwaitingInput"
  /\ Len(Flagged(gateLog)) = 2
  /\ Len(gateLog) = 3
  /\ Len(Done("add")) = 2

\* The step is an operation of record_flagged_content that failed.
RecorderStepFailed ==
  /\ pc \in RecStates
  /\ Len(ops') = Len(ops) + 1
  /\ ~Last(ops').ok

\* C6: whichever step of record_flagged_content fails (writing the artifact,
\* git add, git commit, git push), the failure is printed and run_chatbot is
\* back at the prompt, for a flagged input and for a flagged reply alike.
C6_FailedEscalationKeepsSession ==
  [][ RecorderStepFailed
        => /\ pc' = "AwaitingInput"
           /\ Len(out') = Len(out) + 1
           /\ Last(out').kind = "push_error" ]_vars

\* The part of C6 the code keeps: a git step that exits non-zero
\* (CalledProcessError) is printed and the session is back at the prompt.
C6_CalledProcessErrorKeepsSession ==
  [][ (RecorderStepFailed /\ Len(out') = Len(out) + 1 /\ Last(out').kind = "push_error")
        => pc' = "AwaitingInput" ]_vars

\* The step is a completion call that failed: line 114 printed the error.
CompletionFailed ==
  /\ pc = "Completing"
  /\ Len(out') = Len(out) + 1
  /\ Last(out').kind = "error"

\* C7: a failed completion call ends the session in that step, and from
\* Ended nothing is read, checked, recorded or requested any more.
C7_CompletionFailureEnds ==
  [][ /\ CompletionFailed => pc' = "Ended"
      /\ (pc = "Completing" /\ pc' # "ModeratingReply") => CompletionFailed
      /\ pc = "Ended"
           => /\ pc' = "Ended"
              /\ turns' = turns
              /\ gateLog' = gateLog
              /\ compLog' = compLog
              /\ ops' = ops ]_vars

\* The session ended on a failed completion call: the unanswered user
\* message is the last of the History.
C7_Witness ==
  /\ pc = "Ended"
  /\ Last(out).kind = "error"
  /\ Last(messages).role = "user"
  /\ Last(compLog) = messages

\* Equality of two texts up to the case of their letters.
EqualsIgnoringCase(a, b) ==
  /\ Len(a) = Len(b)
  /\ \A i \in 1..Len(a) : LowerChar(a[i]) = LowerChar(b[i])

ExitTyped(u) == \E k \in ExitKeywords : EqualsIgnoringCase(u, k)

\* C8: a line that equals "exit" or "quit" up to case ends the session with
\* the History, the Gate, the completion service and the Recorder untouched;
\* any other line goes to exactly one Gate check, made on the line as typed.
C8_ExitKeywordEndsUnmoderated ==
  [][ /\ (pc = "AwaitingInput" /\ turns' = turns + 1)
           => /\ messages' = messages
              /\ gateLog' = gateLog
              /\ compLog' = compLog
              /\ ops' = ops
              /\ pc' = (IF ExitTyped(user_input') THEN "Ended" ELSE "ModeratingUser")
      /\ pc = "ModeratingUser"
           => /\ pc' = "UserVerdict"
              /\ gateLog' = gateLog
              /\ user_input' = user_input
      /\ pc = "UserVerdict"
           => /\ VerdictStep("user")
              /\ Last(gateLog').text = user_input
              /\ pc' \notin {"ModeratingUser", "UserVerdict"}
      /\ pc \notin {"UserVerdict"}
           => Verdicts("user")' = Verdicts("user") ]_vars

\* The session ended on an exit keyword typed in capitals.
C8_Witness ==
  /\ pc = "Ended"
  /\ Last(out).kind = "goodbye"
  /\ user_input \notin ExitKeywords
  /\ Len(Verdicts("user")) = turns - 1
  /\ turns = MaxTurns

\* The step reads an exit keyword at the prompt.
ExitStep ==
  /\ pc = "AwaitingInput"
  /\ turns' = turns + 1
  /\ ExitTyped(user_input')

\* C9 as claimed: Ended is entered only from AwaitingInput, on an exit
\* keyword.
C9_EndedOnlyByExit ==
  [][ (pc # "Ended" /\ pc' = "Ended") => ExitStep ]_vars

\* The step is an exception leaving record_flagged_content at call site
\* `site`: an operation of it failed and it did not print its own report.
RecorderRaised(site) ==
  /\ RecorderStepFailed
  /\ caller = site
  /\ Printed("push_error")' = Printed("push_error")

\* C9 as amended: Ended is entered only on an exit keyword read at the
\* prompt or on an exception inside the try block of lines 92-115 (a failed
\* completion call, or an exception leaving record_flagged_content for a
\* flagged reply); the only other way the session stops is an uncaught
\* exception: from record_flagged_content for a flagged input, or from
\* input() at the prompt.
C9_EndedByExitOrException ==
  [][ /\ (pc # "Ended" /\ pc' = "Ended")
           => \/ ExitStep
              \/ CompletionFailed
              \/ RecorderRaised("reply") /\ Last(out').kind = "error"
      /\ (pc # "Crashed" /\ pc' = "Crashed")
           => \/ RecorderRaised("user")
              \/ pc = "AwaitingInput" /\ turns' = turns ]_vars

\* The session ended on an exception that left record_flagged_content while
\* it recorded a flagged reply: the placeholder is the last of the History.
C9_Witness ==
  /\ pc = "Ended"
  /\ Last(out).kind = "error"
  /\ Last(messages) = [role |-> "assistant", content |-> Placeholder]
  /\ ~Last(ops).ok

\* The step is a git push that succeeded.
PushSucceeded ==
  /\ pc = "RecPush"
  /\ Len(ops') = Len(ops) + 1
  /\ Last(ops').ok

\* C10: a publish that succeeds puts exactly one new commit on the remote,
\* holding exactly the artifact of the event being recorded, whatever
\* happened to earlier events.
C10_OneCommitPerPublishedEvent ==
  [][ PushSucceeded
        => /\ Len(remote') = Len(remote) + 1
           /\ Last(remote') =
                { <<Filename(timestamp), Content(timestamp, offending_text)>> } ]_vars

\* The part of C10 the code keeps: a successful push delivers the commit of
\* the event being recorded as the newest commit of the remote, and that
\* commit holds the event's artifact.
C10_PublishedEventReachesRemote ==
  [][ PushSucceeded
        => /\ Len(remote') >= Len(remote) + 1
           /\ Has(Last(remote'), Filename(timestamp)) ]_vars

\* C11: no two invocations of record_flagged_content write the same artifact
\* name, so no write replaces the artifact of an earlier event.
C11_ArtifactNamesUnique ==
  \A i, j \in 1..Len(Done("write")) :
    i # j => Done("write")[i].name # Done("write")[j].name

\* The part of C11 the code keeps: events recorded in different seconds get
\* different names, and a write touches no file but its own.
C11_NamesDifferAcrossSeconds ==
  [][ pc = "RecWrite"
        => /\ \A p \in files : p[1] # Last(ops').name => p \in files'
           /\ \A k \in 1..Len(ops) :
                (ops[k].op = "write" /\ ops[k].name = Last(ops').name)
                  => ops[k].name = Filename(clock') ]_vars

\* The publish of the event named `n` was reported as failed.
PublishFailed(n) ==
  \E k \in 1..Len(ops) :
    ops[k].op \in {"add", "commit", "push"} /\ ~ops[k].ok /\ ops[k].name = n

\* The name `n` was given to one event only.
WrittenOnce(n) ==
  Cardinality({ k \in 1..Len(ops) : ops[k].op = "write" /\ ops[k].name = n }) = 1

OnRemote(n) == \E k \in 1..Len(remote) : Has(remote[k], n)

\* C12: the artifact of an event whose publish was reported as failed never
\* reaches the remote afterwards, not even with the publish of a later event.
\* (Stated for the events that share their name with no other event.)
C12_FailedPublishIsFinal ==
  \A t \in 0..MaxClock :
    (PublishFailed(Filename(t)) /\ WrittenOnce(Filename(t))) => ~OnRemote(Filename(t))

\* The part of C12 the code keeps: record_flagged_content runs no git step
\* for an event after that event's failure was reported.
C12_NoStepAfterFailure ==
  \A k \in 1..Len(ops) :
    ~ops[k].ok => (k = Len(ops) \/ ops[k + 1].op = "write")

IsPrefix(a, b) == Len(a) <= Len(b) /\ SubSeq(b, 1, Len(a)) = a

\* C13: the History is append-only: in every step the History before it is a
\* prefix of the History after it.
C13_HistoryAppendOnly ==
  [][ IsPrefix(messages, messages') ]_vars

\* The History has grown over two turns, an input having been flagged and
\* recorded in the second.
C13_Witness ==
  /\ Len(messages) = 3
  /\ turns = 2
  /\ pc = "RecAdd"
  /\ caller = "user"

\* The operation before ops[k] within the same invocation, ok and of kind
\* `op`, for the same artifact.
After(k, op) ==
  /\ k > 1
  /\ ops[k - 1].op = op
  /\ ops[k - 1].ok
  /\ ops[k - 1].name = ops[k].name

\* C14: within one invocation the git steps run in the order add, commit,
\* push, each at most once and each only after the step before it succeeded;
\* after a failed step no further step of the invocation runs; and the
\* success line is printed only for a push that succeeded after them.
C14_PublishStepsInOrder ==
  /\ \A k \in 1..Len(ops) :
       /\ ops[k].op = "add" => After(k, "write")
       /\ ops[k].op = "commit" => After(k, "add")
       /\ ops[k].op = "push" => After(k, "commit")
       /\ (k < Len(ops) /\ (~ops[k].ok \/ ops[k].op = "push")) => ops[k + 1].op = "write"
  /\ LET pushed == SelectSeq(Done("push"), LAMBDA o : o.ok)
     IN /\ Len(Printed("pushed")) = Len(pushed)
        /\ \A i \in 1..Len(pushed) : Printed("pushed")[i].text = pushed[i].name

\* One invocation stopped at a failed commit and a later one ran all three
\* steps and printed its success.
C14_Witness ==
  /\ Len(Printed("pushed")) = 1
  /\ \E k \in 1..Len(ops) : ops[k].op = "commit" /\ ~ops[k].ok
  /\ Last(ops).op = "push"
  /\ Last(ops).ok

UserMessage(text) == [role |-> "user", content |-> text]
AssistantMessage(text) == [role |-> "assistant", content |-> text]

\* The step returns a clean verdict for `side`.
CleanVerdictStep(side) == VerdictStep(side) /\ ~Last(gateLog').flagged

\* C15: in a turn whose input is no exit keyword, whose completion call
\* succeeds and whose two verdicts are clean, the History grows by the user
\* message and then the real reply and by nothing else, the reply is printed,
\* nothing is recorded, and the session is back at AwaitingInput.
C15_CleanTurnAppendsTwo ==
  [][ /\ CleanVerdictStep("user")
           => /\ messages' = Append(messages, UserMessage(user_input))
              /\ pc' = "Completing"
              /\ ops' = ops
      /\ (pc = "Completing" /\ pc' = "ModeratingReply")
           => /\ messages' = messages
              /\ ops' = ops
      /\ pc = "ModeratingReply"
           => /\ messages' = messages
              /\ ops' = ops
              /\ assistant_reply' = assistant_reply
      /\ CleanVerdictStep("reply")
           => /\ Last(messages) = UserMessage(user_input)
              /\ messages' = Append(messages, AssistantMessage(assistant_reply))
              /\ out' = Append(out, Line("assistant", assistant_reply))
              /\ Last(gateLog').text = assistant_reply
              /\ ops' = ops
              /\ files' = files
              /\ pc' = "AwaitingInput" ]_vars

\* A first turn went clean both ways: the History is the preamble, the input
\* and the reply, nothing was recorded.
C15_Witness ==
  /\ pc = "AwaitingInput"
  /\ turns = 1
  /\ Len(messages) = 3
  /\ messages[3].content = <<"o", "k">>
  /\ Last(out) = Line("assistant", <<"o", "k">>)
  /\ ops = <<>>
  /\ files = {}

\* C16: record_flagged_content is invoked with the text the Gate flagged: the
\* line as typed for an input, the real reply (the placeholder already being
\* in the History) for a reply; the artifact it writes holds that text.
C16_RecorderGetsFlaggedText ==
  [][ /\ (VerdictStep("user") /\ Last(gateLog').flagged)
           => /\ pc' = "RecWrite"
              /\ offending_text' = user_input
              /\ Last(gateLog').text = user_input
      /\ (VerdictStep("reply") /\ Last(gateLog').flagged)
           => /\ pc' = "RecWrite"
              /\ offending_text' = assistant_reply
              /\ Last(gateLog').text = assistant_reply
              /\ offending_text' # Placeholder
              /\ Last(messages') = AssistantMessage(Placeholder)
      /\ (pc \in RecStates /\ pc' \in RecStates)
           => /\ offending_text' = offending_text
              /\ offending_text = Last(gateLog).text
      /\ (pc = "RecWrite" /\ Last(ops').ok)
           => /\ Has(files', Last(ops').name)
              /\ Get(files', Last(ops').name)[4] = Last(gateLog).text ]_vars

\* The artifact of a flagged reply was written: it holds the reply, and the
\* History holds the placeholder.
C16_Witness ==
  /\ pc = "RecAdd"
  /\ caller = "reply"
  /\ Last(messages).content = Placeholder
  /\ Get(files, Filename(timestamp))[4] = assistant_reply
  /\ assistant_reply = <<"o", "k">>

CleanInputs == SelectSeq(Verdicts("user"), LAMBDA v : ~v.flagged)

\* C17: a turn makes at most one completion request, and every request is
\* the whole History as it stands at the call: the system preamble first, the
\* user message appended in this turn last, nothing left out or changed.
C17_RequestCarriesWholeHistory ==
  /\ Len(compLog) + (IF pc = "Completing" THEN 1 ELSE 0) = Len(CleanInputs)
  /\ Len(compLog) <= turns
  /\ \A k \in 1..Len(compLog) :
       /\ Head(compLog[k]) = SystemMessage
       /\ Last(compLog[k]) = UserMessage(CleanInputs[k].text)
       /\ IsPrefix(compLog[k], messages)
       /\ Len(Users(compLog[k])) = k
  /\ pc \in {"ModeratingReply", "ReplyVerdict"}
       => /\ Last(compLog) = messages
          /\ Last(messages) = UserMessage(user_input)

\* A second request was made, carrying the first turn's exchange before the
\* second turn's input.
C17_Witness ==
  /\ Len(compLog) = 2
  /\ Len(compLog[2]) = 4
  /\ compLog[2][3].role = "assistant"
  /\ pc = "ModeratingReply"

\* C18: within a turn the external calls come in the order Gate(input),
\* completion, Gate(reply): one classification call per verdict and no
\* retry; the completion call only after a clean verdict on this turn's input;
\* the reply's check only after this turn's completion call succeeded; at most
\* two verdicts per turn; record_flagged_content entered only straight from a
\* flagged verdict.
C18_CallOrderWithinTurn ==
  [][ /\ pc \in {"ModeratingUser", "ModeratingReply"}
           => /\ response = NoResponse
              /\ response' # NoResponse
              /\ gateLog' = gateLog
              /\ pc' = (IF pc = "ModeratingUser" THEN "UserVerdict" ELSE "ReplyVerdict")
      /\ pc \in {"UserVerdict", "ReplyVerdict"}
           => /\ Len(gateLog') = Len(gateLog) + 1
              /\ response' = NoResponse
              /\ pc' \notin {"ModeratingUser", "UserVerdict", "ReplyVerdict"}
      /\ pc \notin {"UserVerdict", "ReplyVerdict"} => gateLog' = gateLog
      /\ pc' = "Completing"
           => /\ CleanVerdictStep("user")
              /\ Last(gateLog').text = user_input
      /\ pc # "Completing" => compLog' = compLog
      /\ pc' = "ModeratingReply"
           => /\ pc = "Completing"
              /\ Len(compLog') = Len(compLog) + 1
              /\ Last(gateLog).side = "user"
              /\ ~Last(gateLog).flagged
      /\ VerdictStep("reply") => (pc = "ReplyVerdict" /\ Last(gateLog).side = "user")
      /\ pc' = "RecWrite"
           => /\ Len(gateLog') = Len(gateLog) + 1
              /\ Last(gateLog').flagged
      /\ (pc \notin RecStates /\ pc' \in RecStates)
           => pc' = "RecWrite"
      /\ Len(gateLog') <= 2 * turns' ]_vars

\* Both turns of a session made their two Gate checks.
C18_Witness ==
  /\ turns = 2
  /\ Len(gateLog) = 4
  /\ Len(compLog) = 2
  /\ Last(gateLog).flagged
  /\ pc = "RecWrite"

\* A user message was read and its turn is under way.
InTurn ==
  pc \in {"ModeratingUser", "UserVerdict", "Completing", "ModeratingReply",
          "ReplyVerdict"} \cup RecStates

\* C19: when every external call returns or raises, a session that has read
\* a user message reaches AwaitingInput again, or Ended.
C19_TurnReachesPromptOrEnd ==
  InTurn ~> (pc \in {"AwaitingInput", "Ended"})

\* The part of C19 the code keeps: no turn loops or blocks; it comes to the
\* prompt, to Ended, or to the death of run_chatbot by an uncaught exception.
C19_TurnTerminates ==
  InTurn ~> (pc \in {"AwaitingInput", "Ended", "Crashed"})

\* The odd shape: the system preamble, then user and assistant messages in
\* strict alternation, ending with the preamble or an assistant message.
Paired(msgs) ==
  /\ Len(msgs) % 2 = 1
  /\ msgs[1] = SystemMessage
  /\ \A i \in 2..Len(msgs) :
       msgs[i].role = (IF i % 2 = 0 THEN "user" ELSE "assistant")

\* The session ended because the completion call failed.
EndedOnCompletionFailure ==
  /\ pc = "Ended"
  /\ compLog # <<>>
  /\ Last(compLog) = messages
  /\ Last(out).kind = "error"

\* C20: at AwaitingInput the History is the system preamble followed by
\* (user, assistant) pairs; it ends with a user message only while the turn is
\* in Completing or ModeratingReply, or after the session ended on a failed
\* completion call.
C20_HistoryShape ==
  /\ pc = "AwaitingInput" => Paired(messages)
  /\ IF Last(messages).role = "user"
       THEN /\ \/ pc \in {"Completing", "ModeratingReply", "ReplyVerdict"}
               \/ EndedOnCompletionFailure
            /\ Paired(SubSeq(messages, 1, Len(messages) - 1))
       ELSE /\ Paired(messages)
            /\ pc \notin {"Completing", "ModeratingReply", "ReplyVerdict"}
            /\ ~EndedOnCompletionFailure

\* The prompt is reached with two pairs in the History, a placeholder in the
\* first and a real reply in the second.
C20_Witness ==
  /\ pc = "AwaitingInput"
  /\ Len(messages) = 5
  /\ messages[3].content = Placeholder
  /\ messages[5].content # Placeholder
====
